---- MODULE Spec2Model ----
(***************************************************************************)
(* Model of graphic_pomme_env.py: the PommeGraphic environment wrapper     *)
(* (parameter validation, the last-raw-observation cache) and the sprite   *)
(* compositing pipeline (preprocess_board, render_preprocessed_board,      *)
(* postprocess_board, prepare_dashboard).                                  *)
(*                                                                         *)
(* Arrays are functions over 0-based index tuples, as in numpy.  A grid or *)
(* image is a record [rows, cols, cell] with cell[<<r, c>>]; a pixel is a  *)
(* triple <<r, g, b>> (the channel axis is never reordered by the code).   *)
(***************************************************************************)
EXTENDS Integers, Sequences, FiniteSets, TLC

VARIABLES
    lastobs_raw,   \* PommeGraphic.lastobs_raw: None or the cached observation list
    produced,      \* history: the list handed out by the last completed reset/step,
                   \* and whether redraw was ever called directly
    spec_id,       \* self.spec.id
    _num_rigid,    \* Pomme._num_rigid
    _num_wood,     \* Pomme._num_wood
    _num_items,    \* Pomme._num_items
    call,          \* the last call made: its name and arguments
    ret            \* what that call returned or raised

vars == <<lastobs_raw, produced, spec_id, _num_rigid, _num_wood, _num_items, call, ret>>

\* Python's None in a slot that otherwise holds a list
None == [is_none |-> TRUE, list |-> <<>>]
Some(l) == [is_none |-> FALSE, list |-> l]

\* produced: the list as the last completed reset/step left it, and whether
\* redraw has been called from outside reset/step
NotProduced == [is_none |-> TRUE, list |-> <<>>, redraw_called |-> FALSE]

\* ------------------------------------------------------------------ constants

\* pommerman.constants.Item values used by the module
Passage == 0
Bomb == 3
Kick == 8
AgentDummy == 9
Agent0 == 10
Agent1 == 11
Agent2 == 12
Agent3 == 13

KEEP_MY_AGENT_SPRITE == Agent1

\* len(constants.FILE_NAMES) and len(constants.BOMB_FILE_NAMES): the lengths of
\* the simulator's sprite lists.  The code only adds them to timers and sizes
\* the atlas with them, so nothing below depends on the exact lengths beyond
\* the named sprites covering every tile code (0..13).
NumFileNames == 28
NumBombFileNames == 10

\* ---------------------------------------------------------------- outcomes

\* ret: "pending" until the call has run, then its value or the exception raised
Pending == [raised |-> "pending", value |-> <<>>]
Ok(v) == [raised |-> "none", value |-> v]
Raise(e) == [raised |-> e, value |-> <<>>]

NoCall == [op |-> "none"]

\* ------------------------------------------------ set_num_board_params (34-47)

OneVsOne == "GraphicOneVsOne-v0"
OtherEnv == "GraphicOVOCompact-v0"

\* The three blocks of set_num_board_params.  Each takes the stored triple
\* st = [rigid, wood, items, raised] left by the block before it; an assert
\* that fails stops the call and keeps what was stored so far.
SetRigid(st, num_rigid) ==
    IF st.raised \/ ~(num_rigid > 0) THEN st
    ELSE IF num_rigid % 2 # 0 \/ ~(num_rigid >= 2) THEN [st EXCEPT !.raised = TRUE]
    ELSE [st EXCEPT !.rigid = num_rigid]

SetWood(st, id, num_wood) ==
    IF st.raised \/ ~(num_wood > 0) THEN st
    ELSE IF num_wood % 2 # 0 \/ ~(num_wood >= 6) THEN [st EXCEPT !.raised = TRUE]
    ELSE IF id = OneVsOne /\ ~(num_wood >= 10) THEN [st EXCEPT !.raised = TRUE]
    ELSE [st EXCEPT !.wood = num_wood]

SetItems(st, num_items) ==
    IF st.raised \/ ~(num_items > 0) THEN st
    ELSE IF ~(num_items < st.wood) THEN [st EXCEPT !.raised = TRUE]
    ELSE [st EXCEPT !.items = num_items]

set_num_board_params(st, id, num_rigid, num_wood, num_items) ==
    SetItems(SetWood(SetRigid(st, num_rigid), id, num_wood), num_items)

\* bounds of the parameter model: arguments range over the default -1, the
\* ignored 0 and the values around the validation thresholds
MaxRigid == 4
MaxWood == 10

RigidArgs == -1 .. MaxRigid
WoodArgs == {-1, 0} \cup (5 .. MaxWood)
ItemArgs == {-1, 0} \cup (5 .. MaxWood)

\* stored parameters that satisfy the validation rules
ValidParams(id, r, w, i) ==
    /\ r % 2 = 0 /\ r >= 2
    /\ w % 2 = 0 /\ w >= 6
    /\ id = OneVsOne => w >= 10
    /\ i < w

InitParams ==
    /\ lastobs_raw = None /\ produced = NotProduced
    /\ spec_id \in {OneVsOne, OtherEnv}
    /\ _num_rigid \in 2 .. MaxRigid
    /\ _num_wood \in 6 .. MaxWood
    /\ _num_items \in {0} \cup (5 .. MaxWood)
    /\ ValidParams(spec_id, _num_rigid, _num_wood, _num_items)
    /\ call = NoCall /\ ret = Pending

SetNumBoardParams ==
    \E nr \in RigidArgs, nw \in WoodArgs, ni \in ItemArgs :
        LET st0 == [rigid |-> _num_rigid, wood |-> _num_wood, items |-> _num_items,
                    raised |-> FALSE]
            st1 == set_num_board_params(st0, spec_id, nr, nw, ni)
        IN /\ _num_rigid' = st1.rigid
           /\ _num_wood' = st1.wood
           /\ _num_items' = st1.items
           /\ call' = [op |-> "set_num_board_params", num_rigid |-> nr,
                       num_wood |-> nw, num_items |-> ni]
           /\ ret' = IF st1.raised THEN Raise("AssertionError") ELSE Ok(<<>>)
           /\ UNCHANGED <<lastobs_raw, produced, spec_id>>

NextParams == SetNumBoardParams

SpecParams == InitParams /\ [][NextParams]_vars

\* C2: every call to set_num_board_params that violates a validation rule
\* (rigid odd or below 2; wood odd or below 6, below 10 on the one-vs-one
\* variant; items not strictly less than the wood count) raises.  -1 is the
\* default of an argument that was not supplied.
RigidViolates(n) == n # -1 /\ (n % 2 # 0 \/ n < 2)
WoodViolates(id, n) == n # -1 /\ (n % 2 # 0 \/ n < 6 \/ (id = OneVsOne /\ n < 10))
ItemsViolates(n, wood) == n # -1 /\ ~(n < wood)

C2_ViolationsFail ==
    call.op = "set_num_board_params" =>
        ((\/ RigidViolates(call.num_rigid)
          \/ WoodViolates(spec_id, call.num_wood)
          \/ ItemsViolates(call.num_items, _num_wood))
            => ret.raised = "AssertionError")

\* C10: the stored parameters satisfy the validation rules after every
\* sequence of set_num_board_params calls: rigid even and >= 2, wood even and
\* >= 6, items strictly less than wood.
C10_StoredParamsValid ==
    /\ _num_rigid % 2 = 0 /\ _num_rigid >= 2
    /\ _num_wood % 2 = 0 /\ _num_wood >= 6
    /\ _num_items < _num_wood

\* ------------------------------------------------------------ array helpers

Cells(rows, cols) == (0 .. rows - 1) \X (0 .. cols - 1)

Grid(rows, cols, f) == [rows |-> rows, cols |-> cols, cell |-> f]

\* lines 144-150
has_players(v) == (v >= 9) /\ (v <= 13)
where_agent(ppboard) == {p \in DOMAIN ppboard.cell : has_players(ppboard.cell[p])}
offset(x, scale) == x * scale
half_texture(scale) == scale \div 2
quarter_texture(scale) == scale \div 4 + scale \div 8

\* ------------------------------------------------- preprocess_board (110-125)

\* line 115: a cell with a running bomb and no player is routed to a bomb sprite
BombCodeShifted(timer) == timer + NumFileNames + 1

BombCode(timer) == timer + NumFileNames

RouteBombs(board, bombs) ==
    [board EXCEPT !.cell = [p \in DOMAIN board.cell |->
        IF bombs.cell[p] # 0 /\ ~has_players(board.cell[p])
        THEN BombCode(bombs.cell[p]) ELSE board.cell[p]]]

SubstituteOtherAnyPlayer(board, my_idx) ==
    [board EXCEPT !.cell = [p \in DOMAIN board.cell |->
        IF has_players(board.cell[p]) THEN my_idx ELSE board.cell[p]]]

\* lines 119-120: every cell holding Agent1's code takes the viewer's code
SubstituteOther(board, my_idx) ==
    IF \E p \in DOMAIN board.cell : board.cell[p] = KEEP_MY_AGENT_SPRITE
    THEN [board EXCEPT !.cell = [p \in DOMAIN board.cell |->
            IF board.cell[p] = KEEP_MY_AGENT_SPRITE THEN my_idx ELSE board.cell[p]]]
    ELSE board

SubstituteSelfAlways(board, my_idx, alive, position) ==
    [board EXCEPT !.cell[position] = KEEP_MY_AGENT_SPRITE]

\* lines 122-123: a living viewer is drawn with Agent1's sprite
SubstituteSelf(board, my_idx, alive, position) ==
    IF my_idx \in alive
    THEN [board EXCEPT !.cell[position] = KEEP_MY_AGENT_SPRITE]
    ELSE board

preprocess_board(obs) ==
    SubstituteSelf(
        SubstituteOther(RouteBombs(obs.board, obs.bomb_life), obs.my_sprite),
        obs.my_sprite, obs.alive, obs.position)

\* ---- inputs of the preprocessing model

BoardRows == 2
MaxTiles == 2

BoardCells == Cells(BoardRows, 2)

\* <<tile code, bomb timer>> pairs placed on an otherwise empty board: the
\* codes on both sides of the player range 9..13, each with and without a
\* running bomb, and the largest timer the atlas has a slot for
Empty == <<Passage, 0>>
TileSample ==
    { <<Passage, 1>>, <<Bomb, NumBombFileNames>>, <<Kick, 0>>, <<AgentDummy, 2>>,
      <<Agent0, 0>>, <<Agent1, 0>>, <<Agent1, 3>>, <<Agent3, NumBombFileNames>> }

Layouts ==
    { f \in [BoardCells -> TileSample \cup {Empty}] :
        Cardinality({p \in BoardCells : f[p] # Empty}) <= MaxTiles }

AllAgents == {Agent0, Agent1, Agent2, Agent3}
MySprites == {Agent0, Agent1, Agent3}
AliveSets == {{}, {Agent1}, AllAgents \ {Agent1}, AllAgents}

MakeObs(f, pos, alive, my, bs, ammo, kick) ==
    [board |-> Grid(BoardRows, 2, [p \in BoardCells |-> f[p][1]]),
     bomb_life |-> Grid(BoardRows, 2, [p \in BoardCells |-> f[p][2]]),
     position |-> pos, alive |-> alive, my_sprite |-> my,
     blast_strength |-> bs, ammo |-> ammo, can_kick |-> kick]

InitPre ==
    /\ lastobs_raw = None /\ produced = NotProduced
    /\ spec_id = OtherEnv /\ _num_rigid = 2 /\ _num_wood = 6 /\ _num_items = 0
    /\ \E f \in Layouts, pos \in BoardCells, alive \in AliveSets, my \in MySprites :
         call = [op |-> "preprocess_board",
                 obs |-> MakeObs(f, pos, alive, my, 2, 1, FALSE)]
    /\ ret = Pending

PreprocessBoard ==
    /\ call.op = "preprocess_board" /\ ret.raised = "pending"
    /\ ret' = Ok(preprocess_board(call.obs))
    /\ UNCHANGED <<lastobs_raw, produced, spec_id, _num_rigid, _num_wood, _num_items, call>>

NextPre == PreprocessBoard

SpecPre == InitPre /\ [][NextPre]_vars

\* line 185: the atlas holds the named sprites, the bomb stages and a spare slot
AtlasLen == NumFileNames + NumBombFileNames + 1

PreDone == call.op = "preprocess_board" /\ ret.raised = "none"

\* the value of cell p after bomb routing and the Agent1 substitution alone
NoSelfValue(o, p) ==
    LET raw == o.board.cell[p]
        timer == o.bomb_life.cell[p]
    IN IF raw = KEEP_MY_AGENT_SPRITE THEN o.my_sprite
       ELSE IF timer # 0 /\ (raw < 9 \/ raw > 13) THEN timer + NumFileNames
       ELSE raw

\* C3: when my_sprite is in the alive set the coded grid holds the placeholder
\* code (Agent1's) at the agent's own position; when it is not, the cell at the
\* position keeps the value it has without the self-substitution rule.
C3_SelfPlaceholder ==
    PreDone =>
        LET o == call.obs
            g == ret.value
        IN /\ o.my_sprite \in o.alive => g.cell[o.position] = KEEP_MY_AGENT_SPRITE
           /\ o.my_sprite \notin o.alive =>
                g.cell[o.position] = NoSelfValue(o, o.position)

C3_Witness ==
    /\ PreDone
    /\ call.obs.my_sprite \in call.obs.alive
    /\ call.obs.my_sprite = Agent0
    /\ call.obs.board.cell[call.obs.position] = Agent0
    /\ ret.value.cell[call.obs.position] = KEEP_MY_AGENT_SPRITE

\* C4 as stated: with my_sprite not in the alive set, every cell of the coded
\* grid that equals my_sprite already held my_sprite in the raw board.
C4_DeadNeverWritten ==
    PreDone =>
        (call.obs.my_sprite \notin call.obs.alive =>
            \A p \in DOMAIN ret.value.cell :
                ret.value.cell[p] = call.obs.my_sprite
                    => call.obs.board.cell[p] = call.obs.my_sprite)

\* C4 amended: with my_sprite not in the alive set, every cell of the coded
\* grid that equals my_sprite held my_sprite or the placeholder code (Agent1's)
\* in the raw board.
C4_DeadWrittenOnlyOverPlaceholder ==
    PreDone =>
        (call.obs.my_sprite \notin call.obs.alive =>
            \A p \in DOMAIN ret.value.cell :
                ret.value.cell[p] = call.obs.my_sprite
                    => call.obs.board.cell[p] \in {call.obs.my_sprite, KEEP_MY_AGENT_SPRITE})

C4_Witness ==
    /\ PreDone
    /\ call.obs.my_sprite \notin call.obs.alive
    /\ call.obs.my_sprite # KEEP_MY_AGENT_SPRITE
    /\ \E p \in DOMAIN ret.value.cell :
         /\ call.obs.board.cell[p] = KEEP_MY_AGENT_SPRITE
         /\ ret.value.cell[p] = call.obs.my_sprite

\* C5: for a board of valid tile codes, bomb timers between 0 and the number
\* of bomb-stage sprites and an agent code as my_sprite, every cell of the
\* coded grid lies in [0, atlas length).
ValidObs(o) ==
    /\ \A p \in DOMAIN o.board.cell : o.board.cell[p] \in Passage .. Agent3
    /\ \A p \in DOMAIN o.bomb_life.cell : o.bomb_life.cell[p] \in 0 .. NumBombFileNames
    /\ o.my_sprite \in Agent0 .. Agent3

C5_ValidAtlasIndices ==
    PreDone =>
        (ValidObs(call.obs) =>
            \A p \in DOMAIN ret.value.cell :
                ret.value.cell[p] >= 0 /\ ret.value.cell[p] < AtlasLen)

C5_Witness ==
    /\ PreDone
    /\ ValidObs(call.obs)
    /\ \E p \in DOMAIN ret.value.cell : ret.value.cell[p] = AtlasLen - 1

\* ---------------------------------------- render_preprocessed_board (96-107)

\* A 4-d array of pixels: [shape |-> <<d0, d1, d2, d3>>, at |-> [index -> pixel]].
\* The trailing channel axis stays last through every step and is carried
\* inside the pixel.
Idx4(shape) ==
    (0 .. shape[1] - 1) \X (0 .. shape[2] - 1) \X (0 .. shape[3] - 1) \X (0 .. shape[4] - 1)

\* numpy indexing of the first axis: a negative index counts from the end
WrapIndex(v, n) == IF v < 0 THEN v + n ELSE v

InAtlas(v, n) == v >= -n /\ v < n

\* line 104: resources[board], shape [rows, cols, sprite_h, sprite_w]
Gather(board, res) ==
    LET shape == <<board.rows, board.cols, res.h, res.w>>
    IN [shape |-> shape,
        at |-> [q \in Idx4(shape) |->
                  res.sprite[WrapIndex(board.cell[<<q[1], q[2]>>], res.len)][<<q[3], q[4]>>]]]

TransposeNone(a) == a

\* line 105: transpose(0, 2, 1, 3, 4)
Transpose0213(a) ==
    LET shape == <<a.shape[1], a.shape[3], a.shape[2], a.shape[4]>>
    IN [shape |-> shape,
        at |-> [q \in Idx4(shape) |-> a.at[<<q[1], q[3], q[2], q[4]>>]]]

\* the index tuple at row-major (C order) offset k of an array of that shape
Unravel(k, shape) ==
    <<k \div (shape[2] * shape[3] * shape[4]),
      (k \div (shape[3] * shape[4])) % shape[2],
      (k \div shape[4]) % shape[3],
      k % shape[4]>>

\* line 106: reshape(rows, cols, channels) keeps the row-major element order
Reshape2(a, rows, cols) ==
    Grid(rows, cols, [p \in Cells(rows, cols) |-> a.at[Unravel(p[1] * cols + p[2], a.shape)]])

render_preprocessed_board(board, res) ==
    Reshape2(Transpose0213(Gather(board, res)), board.rows * res.h, board.cols * res.w)

\* ------------------------------------------------- load_resources (184-190)

Black == <<0, 0, 0>>

\* Stand-in for the pixel (i, j) of the k-th sprite file after resize and
\* RGB conversion: every pixel of every sprite gets its own non-black colour.
SpritePixel(k, i, j, sprite_size) ==
    LET v == (k * sprite_size + i) * sprite_size + j + 1
    IN <<v % 256, (v \div 256) + 1, k + 1>>

Atlas(n, sprite_size, sprite) ==
    [len |-> n, h |-> sprite_size, w |-> sprite_size, sprite |-> sprite]

load_resources(sprite_size) ==
    Atlas(AtlasLen, sprite_size,
          [k \in 0 .. AtlasLen - 1 |->
             [q \in Cells(sprite_size, sprite_size) |->
                IF k < NumFileNames + NumBombFileNames
                THEN SpritePixel(k, q[1], q[2], sprite_size) ELSE Black]])

\* ---- inputs of the compositor model

MaxGrid == 2
MaxSprite == 2

Grey == <<128, 128, 128>>
White == <<255, 255, 255>>

\* the 2-entry 1x1 atlas of the known scenario, and 3-entry atlases of
\* distinct pixels for every sprite size
CheckerAtlas == Atlas(2, 1, [k \in 0 .. 1 |-> [q \in Cells(1, 1) |-> IF k = 0 THEN Grey ELSE White]])

TestAtlas(sprite_size) ==
    Atlas(3, sprite_size,
          [k \in 0 .. 2 |-> [q \in Cells(sprite_size, sprite_size) |->
                               SpritePixel(k, q[1], q[2], sprite_size)]])

AtlasSample == {CheckerAtlas} \cup {TestAtlas(sz) : sz \in 1 .. MaxSprite}

InitRender ==
    /\ lastobs_raw = None /\ produced = NotProduced
    /\ spec_id = OtherEnv /\ _num_rigid = 2 /\ _num_wood = 6 /\ _num_items = 0
    /\ \E res \in AtlasSample, rows \in 1 .. MaxGrid, cols \in 1 .. 2 :
         \E f \in [Cells(rows, cols) -> -1 .. res.len - 1] :
             call = [op |-> "render_preprocessed_board",
                     board |-> Grid(rows, cols, f), resources |-> res]
    /\ ret = Pending

RenderPreprocessedBoard ==
    /\ call.op = "render_preprocessed_board" /\ ret.raised = "pending"
    /\ ret' = IF \A p \in DOMAIN call.board.cell : InAtlas(call.board.cell[p], call.resources.len)
              THEN Ok(render_preprocessed_board(call.board, call.resources))
              ELSE Raise("IndexError")
    /\ UNCHANGED <<lastobs_raw, produced, spec_id, _num_rigid, _num_wood, _num_items, call>>

NextRender == RenderPreprocessedBoard

SpecRender == InitRender /\ [][NextRender]_vars

RenderDone == call.op = "render_preprocessed_board" /\ ret.raised = "none"

CheckerBoard == Grid(2, 2, [p \in Cells(2, 2) |-> IF p[1] = p[2] THEN 0 ELSE 1])

\* C6: the image has shape (R*s, C*s, 3) and its pixel (r*s+i, c*s+j) is pixel
\* (i, j) of the atlas sprite indexed by grid cell (r, c); the 2x2 grid
\* [[0,1],[1,0]] over the 1x1 (grey, white) atlas gives the same checkerboard.
C6_TiledSprites ==
    RenderDone =>
        LET b == call.board
            res == call.resources
            sz == res.h
            img == ret.value
        IN /\ img.rows = b.rows * sz /\ img.cols = b.cols * sz
           /\ DOMAIN img.cell = Cells(b.rows * sz, b.cols * sz)
           /\ \A p \in DOMAIN img.cell : Len(img.cell[p]) = 3
           /\ \A p \in DOMAIN b.cell : \A q \in Cells(sz, sz) :
                img.cell[<<p[1] * sz + q[1], p[2] * sz + q[2]>>]
                    = res.sprite[IF b.cell[p] < 0 THEN b.cell[p] + res.len ELSE b.cell[p]][q]
           /\ (b = CheckerBoard /\ res = CheckerAtlas) =>
                img.cell = [p \in Cells(2, 2) |-> IF p[1] = p[2] THEN Grey ELSE White]

C6_Witness ==
    /\ RenderDone
    /\ call.resources.h = 2
    /\ call.board.rows = 2 /\ call.board.cols = 2
    /\ call.board.cell[<<0, 1>>] = 1 /\ call.board.cell[<<1, 0>>] = 2
    /\ ret.value.cell[<<1, 2>>] = call.resources.sprite[1][<<1, 0>>]

\* ------------------------------------------------- postprocess_board (128-141)

\* line 147
get_bomb(res, state) == res.sprite[NumFileNames + state]

BarTopHalf(scale) == half_texture(scale)

\* lines 138-139: the first row of a block that the bar covers
BarTop(scale) == half_texture(scale) + quarter_texture(scale)

\* The loop over the player cells writes disjoint blocks, so the result is
\* given pixel by pixel: p lies in the block of cell (p[1] div scale,
\* p[2] div scale), at row p[1] % scale and column p[2] % scale of it.
postprocess_board(rendered_board, res, bombs, ppboard) ==
    LET scale == res.h
    IN [rendered_board EXCEPT !.cell = [p \in DOMAIN rendered_board.cell |->
          LET player == <<p[1] \div scale, p[2] \div scale>>
          IN IF /\ player \in where_agent(ppboard)
                /\ bombs.cell[player] # 0
                /\ p[1] >= offset(player[1], scale) + BarTop(scale)
             THEN get_bomb(res, bombs.cell[player])[<<p[1] % scale, p[2] % scale>>]
             ELSE rendered_board.cell[p]]]

\* ---- inputs of the overlay model: one-row-high boards of two columns whose
\* cells range over the whole tile sample, at the sprite sizes 1, 2, 4 and 8

PostRows == 1

PostCells == Cells(PostRows, 2)
SpriteSizes == {1, 2, 4, 8}

PostObs(f, alive) ==
    [board |-> Grid(PostRows, 2, [p \in PostCells |-> f[p][1]]),
     bomb_life |-> Grid(PostRows, 2, [p \in PostCells |-> f[p][2]]),
     position |-> <<0, 0>>, alive |-> alive, my_sprite |-> Agent0,
     blast_strength |-> 2, ammo |-> 1, can_kick |-> FALSE]

InitPost ==
    /\ lastobs_raw = None /\ produced = NotProduced
    /\ spec_id = OtherEnv /\ _num_rigid = 2 /\ _num_wood = 6 /\ _num_items = 0
    /\ \E f \in [PostCells -> TileSample \cup {Empty}], alive \in {{}, AllAgents},
          sz \in SpriteSizes :
         LET o == PostObs(f, alive)
             res == load_resources(sz)
             ppboard == preprocess_board(o)
         IN call = [op |-> "postprocess_board",
                    rendered_board |-> render_preprocessed_board(ppboard, res),
                    sprite_size |-> sz, bombs |-> o.bomb_life, ppboard |-> ppboard]
    /\ ret = Pending

PostprocessBoard ==
    /\ call.op = "postprocess_board" /\ ret.raised = "pending"
    /\ ret' = Ok(postprocess_board(call.rendered_board, load_resources(call.sprite_size),
                                   call.bombs, call.ppboard))
    /\ UNCHANGED <<lastobs_raw, produced, spec_id, _num_rigid, _num_wood, _num_items, call>>

NextPost == PostprocessBoard

SpecPost == InitPost /\ [][NextPost]_vars

PostDone == call.op = "postprocess_board" /\ ret.raised = "none"

\* the image expected when the bar covers the rows of a block from row
\* first[sprite size] down: bomb-stage sprite rows under players standing on
\* a bomb, the composited image everywhere else
ExpectedOverlay(first) ==
    LET sz == call.sprite_size
        res == load_resources(sz)
    IN [p \in DOMAIN call.rendered_board.cell |->
          LET cellp == <<p[1] \div sz, p[2] \div sz>>
              code == call.ppboard.cell[cellp]
              timer == call.bombs.cell[cellp]
          IN IF code >= 9 /\ code <= 13 /\ timer # 0 /\ p[1] % sz >= first[sz]
             THEN res.sprite[NumFileNames + timer][<<p[1] % sz, p[2] % sz>>]
             ELSE call.rendered_board.cell[p]]

\* the first row i of the lower 37.5% of sz rows: the least i with 8i >= 5sz
Lower375 == [sz \in SpriteSizes |-> (5 * sz + 7) \div 8]
BelowBarTop == [sz \in SpriteSizes |-> (sz \div 2) + (sz \div 4) + (sz \div 8)]

\* C9 as stated: only the blocks of player cells with a nonzero countdown
\* change, and in each exactly the lower 37.5% of the rows (sprite size 8: the
\* bottom 3 of 8) take the same rows of the countdown-stage sprite.
C9_Lower375Overwritten ==
    PostDone => ret.value.cell = ExpectedOverlay(Lower375)

\* C9 amended: in each such block exactly the rows from index
\* s//2 + s//4 + s//8 down to the bottom take the same rows of the
\* countdown-stage sprite (sprite size 8: the bottom 1 of 8 rows); every other
\* pixel is unchanged.
C9_BarRowsOverwritten ==
    PostDone => ret.value.cell = ExpectedOverlay(BelowBarTop)

C9_Witness ==
    /\ PostDone
    /\ call.sprite_size = 8
    /\ call.ppboard.cell[<<0, 1>>] = Agent3
    /\ call.bombs.cell[<<0, 1>>] = NumBombFileNames
    /\ ret.value.cell[<<7, 8>>] = Black
    /\ ret.value.cell[<<6, 8>>] = call.rendered_board.cell[<<6, 8>>]
    /\ ret.value.cell[<<7, 8>>] # call.rendered_board.cell[<<7, 8>>]

\* ------------------------------------------------- prepare_dashboard (152-181)

STD_BOARD_SIZE == 11
STD_GRID_SIZE == 8

Min3(a, b, c) == IF a <= b /\ a <= c THEN a ELSE IF b <= c THEN b ELSE c

\* line 157: the board-size bound of the blast-strength clamp
BlastBoardBound(board_size) == board_size - (IF board_size % 2 = 1 THEN 1 ELSE 0)

AmmoBoardBoundAsBlast(board_size) == board_size - (IF board_size % 2 = 1 THEN 1 ELSE 0)

\* line 159: the board-size bound of the ammo clamp
AmmoBoardBound(board_size) == board_size - (IF board_size % 2 = 1 THEN 1 ELSE 2)

\* Python's bool is an int: True > 0, False > 0 is false
BoolInt(b) == IF b THEN 1 ELSE 0

FillLeftFloor(row, count, sprite) ==
    [k \in DOMAIN row |-> IF k < count \div 2 THEN sprite ELSE row[k]]

\* line 161: conversion_array[0, 0:(blast_strength+1)//2] = bs_sprite
FillLeft(row, count, sprite) ==
    [k \in DOMAIN row |-> IF k < (count + 1) \div 2 THEN sprite ELSE row[k]]

\* line 163: the same slice of the column-reversed view
FillRight(row, count, sprite, board_size) ==
    [k \in DOMAIN row |-> IF board_size - 1 - k < (count + 1) \div 2 THEN sprite ELSE row[k]]

\* lines 156-165: the 1 x board_size conversion array
conversion_array(blast_strength, ammo, can_kick, board_size) ==
    LET blank == [k \in 0 .. board_size - 1 |-> -1]
        left == FillLeft(blank, blast_strength, 4)
        right == FillRight(left, ammo, 3, board_size)
    IN [right EXCEPT ![board_size \div 2] = IF BoolInt(can_kick) > 0 THEN Kick ELSE -1]

\* lines 171-173: blacken columns [bs*scale + scale//2, (bs+1)*scale)
BlackenLeft(img, blast_strength, scale) ==
    IF blast_strength % 2 = 1
    THEN LET bs == blast_strength \div 2
         IN [img EXCEPT !.cell = [p \in DOMAIN img.cell |->
               IF p[2] >= offset(bs, scale) + half_texture(scale) /\ p[2] < offset(bs + 1, scale)
               THEN Black ELSE img.cell[p]]]
    ELSE img

\* lines 174-176: the same column range of the column-reversed view
BlackenRight(img, ammo, scale) ==
    IF ammo % 2 = 1
    THEN LET am == ammo \div 2
         IN [img EXCEPT !.cell = [p \in DOMAIN img.cell |->
               LET x == img.cols - 1 - p[2]
               IN IF x >= offset(am, scale) + half_texture(scale) /\ x < offset(am + 1, scale)
                  THEN Black ELSE img.cell[p]]]
    ELSE img

\* line 179: the channel mean, stored back into the uint8 image
GreyPixel(px) == LET m == (px[1] + px[2] + px[3]) \div 3 IN <<m, m, m>>

GreyOut(img) == [img EXCEPT !.cell = [p \in DOMAIN img.cell |-> GreyPixel(img.cell[p])]]

\* The returned image, with the values the locals hold at the return
prepare_dashboard(obs, res, scale, board_size) ==
    LET blast_bound == BlastBoardBound(board_size)
        ammo_bound == AmmoBoardBound(board_size)
        blast_strength == Min3(obs.blast_strength, NumBombFileNames, blast_bound)
        ammo == Min3(obs.ammo, NumBombFileNames, ammo_bound)
        row == conversion_array(blast_strength, ammo, obs.can_kick, board_size)
        grid == Grid(1, board_size, [p \in Cells(1, board_size) |-> row[p[2]]])
        rendered == render_preprocessed_board(grid, res)
    IN [rendered_array |-> GreyOut(BlackenRight(BlackenLeft(rendered, blast_strength, scale),
                                                ammo, scale)),
        blast_bound |-> blast_bound, ammo_bound |-> ammo_bound,
        blast_strength |-> blast_strength, ammo |-> ammo, conversion_array |-> row]

\* ---- inputs of the dashboard model

MaxStat == 11
MaxSmallBoard == 4
MaxDashSprite == 2

DashBoardSizes == (1 .. MaxSmallBoard) \cup {STD_GRID_SIZE, STD_BOARD_SIZE, STD_BOARD_SIZE + 1}

InitDash ==
    /\ lastobs_raw = None /\ produced = NotProduced
    /\ spec_id = OtherEnv /\ _num_rigid = 2 /\ _num_wood = 6 /\ _num_items = 0
    /\ \E bs \in 0 .. MaxStat, am \in 0 .. MaxStat, kick \in BOOLEAN,
          n \in DashBoardSizes, sz \in 1 .. MaxDashSprite :
         call = [op |-> "prepare_dashboard",
                 obs |-> [blast_strength |-> bs, ammo |-> am, can_kick |-> kick],
                 scale |-> sz, board_size |-> n]
    /\ ret = Pending

PrepareDashboard ==
    /\ call.op = "prepare_dashboard" /\ ret.raised = "pending"
    /\ ret' = Ok(prepare_dashboard(call.obs, load_resources(call.scale), call.scale,
                                   call.board_size))
    /\ UNCHANGED <<lastobs_raw, produced, spec_id, _num_rigid, _num_wood, _num_items, call>>

NextDash == PrepareDashboard

SpecDash == InitDash /\ [][NextDash]_vars

DashDone == call.op = "prepare_dashboard" /\ ret.raised = "none"

CeilHalf(v) == (v \div 2) + (v % 2)

\* C7: with blast_strength = 0, ammo = 0 and can_kick false every cell of the
\* row is the blank sentinel; in general exactly the ceil(blast/2) leftmost
\* cells hold the blast sprite (4), exactly the ceil(ammo/2) rightmost cells
\* hold the ammo sprite (3) (blast and ammo being the clamped values), the
\* centre column holds the kick sprite iff can_kick is truthy, and the last
\* filled cell of a side has its trailing half blackened iff that side's
\* clamped value is odd: every pixel of the strip is black in such a half and
\* the greyed sprite pixel of its cell everywhere else.  blast_strength = 5 on
\* an 11-wide board fills exactly cells 0, 1, 2, the third as a half icon.
C7_DashboardRow ==
    DashDone =>
        LET n == call.board_size
            sz == call.scale
            res == load_resources(sz)
            v == ret.value
            row == v.conversion_array
            img == v.rendered_array
            nb == CeilHalf(v.blast_strength)
            na == CeilHalf(v.ammo)
            HalfLeft(k, j) == v.blast_strength % 2 = 1 /\ k = nb - 1 /\ j >= sz \div 2
            HalfRight(k, j) == v.ammo % 2 = 1 /\ k = n - na /\ j < sz - sz \div 2
            Sprite(k) == res.sprite[IF row[k] < 0 THEN row[k] + res.len ELSE row[k]]
        IN /\ DOMAIN row = 0 .. n - 1
           /\ (call.obs.blast_strength = 0 /\ call.obs.ammo = 0 /\ ~call.obs.can_kick)
                => \A k \in 0 .. n - 1 : row[k] = -1
           /\ {k \in 0 .. n - 1 : row[k] = 4} = 0 .. nb - 1
           /\ {k \in 0 .. n - 1 : row[k] = 3} = n - na .. n - 1
           /\ (row[n \div 2] = Kick) <=> call.obs.can_kick
           /\ ~call.obs.can_kick => row[n \div 2] = -1
           /\ img.rows = sz /\ img.cols = n * sz
           /\ \A p \in DOMAIN img.cell :
                LET k == p[2] \div sz
                    j == p[2] % sz
                    m == (Sprite(k)[<<p[1], j>>][1] + Sprite(k)[<<p[1], j>>][2]
                            + Sprite(k)[<<p[1], j>>][3]) \div 3
                IN img.cell[p] = IF HalfLeft(k, j) \/ HalfRight(k, j)
                                 THEN <<0, 0, 0>> ELSE <<m, m, m>>
           /\ (call.obs.blast_strength = 5 /\ n = STD_BOARD_SIZE) =>
                /\ {k \in 0 .. n - 1 : row[k] = 4} = {0, 1, 2}
                /\ \A p \in DOMAIN img.cell :
                     (p[2] \div sz = 2) => ((img.cell[p] = <<0, 0, 0>>) <=> (p[2] % sz >= sz \div 2))

C7_Witness ==
    /\ DashDone
    /\ call.obs.blast_strength = 5 /\ call.board_size = STD_BOARD_SIZE /\ call.scale = 2
    /\ call.obs.ammo = 3 /\ call.obs.can_kick
    /\ ret.value.conversion_array[2] = 4 /\ ret.value.conversion_array[3] = -1
    /\ ret.value.rendered_array.cell[<<0, 5>>] = Black
    /\ ret.value.rendered_array.cell[<<0, 4>>] # Black

\* the clamps of lines 157 and 159
ClampsAsCoded ==
    /\ ret.value.blast_strength
         = Min3(call.obs.blast_strength, NumBombFileNames, ret.value.blast_bound)
    /\ ret.value.ammo = Min3(call.obs.ammo, NumBombFileNames, ret.value.ammo_bound)

\* C8 as stated: the board-size bound of the ammo clamp differs by 1 from the
\* board-size bound of the blast-strength clamp when board_size is odd (both
\* values being min(declared value, number of bomb-stage sprites, bound)).
C8_BoundsDifferByOneWhenOdd ==
    DashDone =>
        /\ ClampsAsCoded
        /\ call.board_size % 2 = 1 =>
             \/ ret.value.blast_bound - ret.value.ammo_bound = 1
             \/ ret.value.ammo_bound - ret.value.blast_bound = 1

\* C8 amended: the two board-size bounds are equal when board_size is odd
\* and the ammo bound is 2 below the blast-strength bound when board_size is
\* even (both values being min(declared value, number of bomb-stage sprites,
\* bound)).
C8_BoundsEqualWhenOdd ==
    DashDone =>
        /\ ClampsAsCoded
        /\ call.board_size % 2 = 1 => ret.value.ammo_bound = ret.value.blast_bound
        /\ call.board_size % 2 = 0 => ret.value.blast_bound - ret.value.ammo_bound = 2

C8_Witness ==
    /\ DashDone
    /\ call.board_size = 3
    /\ call.obs.ammo = 5 /\ call.obs.blast_strength = 5
    /\ ret.value.ammo = 2 /\ ret.value.blast_strength = 2

\* ------------------------------------------------------------ redraw (49-65)

\* lines 51-52: each observation of the list gets the code of its own slot
WithSprite(o, i) ==
    [board |-> o.board, bomb_life |-> o.bomb_life, position |-> o.position,
     alive |-> o.alive, blast_strength |-> o.blast_strength, ammo |-> o.ammo,
     can_kick |-> o.can_kick, my_sprite |-> Agent0 + i]

Annotate(obs) == [k \in 1 .. Len(obs) |-> WithSprite(obs[k], k - 1)]

\* line 64: np.concatenate([b, d], axis=0)
ConcatRows(b, d) ==
    Grid(b.rows + d.rows, b.cols,
         [p \in Cells(b.rows + d.rows, b.cols) |->
            IF p[1] < b.rows THEN b.cell[p] ELSE d.cell[<<p[1] - b.rows, p[2]>>]])

\* lines 55-65, over the observations as lines 51-52 left them
RedrawViews(annotated, sprite_size, board_size) ==
    LET renres == load_resources(sprite_size)
        View(o) ==
            LET ppboard == preprocess_board(o)
                raw == postprocess_board(render_preprocessed_board(ppboard, renres),
                                         renres, o.bomb_life, ppboard)
                dash == prepare_dashboard(o, renres, sprite_size, board_size).rendered_array
            IN ConcatRows(raw, dash)
    IN [k \in 1 .. Len(annotated) |-> View(annotated[k])]

\* redraw of a list of distinct dicts, as reset and step call it
redraw(obs, sprite_size, board_size) ==
    RedrawViews(Annotate(obs), sprite_size, board_size)

\* redraw called with a list of dict objects: dicts of the cached list (kind
\* "cached", ref = their place in it) and dicts of the caller's own (kind
\* "own", ref = their place in the caller's pool of dicts).  One object may
\* occupy several slots.  Lines 51-52 write into the objects they are handed,
\* in list order, before anything is drawn: an object ends with the code of
\* the last slot that holds it, and every view of it is drawn with that code.
LastSlot(arg, kind, r) ==
    LET slots == {k \in 1 .. Len(arg) : arg[k].kind = kind /\ arg[k].ref = r}
    IN IF slots = {} THEN 0 ELSE CHOOSE k \in slots : \A j \in slots : j <= k

RewriteCached(cached, arg) ==
    [r \in 1 .. Len(cached) |->
        IF LastSlot(arg, "cached", r) = 0 THEN cached[r]
        ELSE WithSprite(cached[r], LastSlot(arg, "cached", r) - 1)]

AnnotateArg(cached, pool, arg) ==
    [k \in 1 .. Len(arg) |->
        IF arg[k].kind = "cached" THEN RewriteCached(cached, arg)[arg[k].ref]
        ELSE WithSprite(pool[arg[k].ref], LastSlot(arg, "own", arg[k].ref) - 1)]

\* --------------------------- reset / step / get_last_step_raw (28-32, 67-81)

\* `if self.lastobs_raw:` is false for None and for an empty list
Truthy(x) == ~x.is_none /\ Len(x.list) > 0

\* ---- the simulator's side: what super().reset() and super().step() return

MaxAgents == 2

RawObs(f, pos, alive, bs, ammo, kick) ==
    [board |-> Grid(BoardRows, 2, [p \in BoardCells |-> f[p][1]]),
     bomb_life |-> Grid(BoardRows, 2, [p \in BoardCells |-> f[p][2]]),
     position |-> pos, alive |-> alive,
     blast_strength |-> bs, ammo |-> ammo, can_kick |-> kick]

LayoutA == [p \in BoardCells |->
              IF p = <<0, 0>> THEN <<Agent0, 0>> ELSE IF p = <<1, 1>> THEN <<Agent1, 0>> ELSE Empty]
LayoutB == [p \in BoardCells |->
              IF p = <<0, 0>> THEN <<Agent0, 3>> ELSE IF p = <<0, 1>> THEN <<Bomb, 1>> ELSE Empty]

ObsCatalogue ==
    { RawObs(LayoutA, <<0, 0>>, {Agent0, Agent1}, 2, 1, FALSE),
      RawObs(LayoutA, <<1, 1>>, {Agent0, Agent1}, 2, 1, FALSE),
      RawObs(LayoutB, <<0, 0>>, {Agent0}, 3, 0, TRUE),
      RawObs(LayoutB, <<1, 1>>, {Agent0}, 2, 2, FALSE) }

\* one observation per agent; an environment whose agent list is empty
\* hands out the empty list
ObsLists == UNION { [1 .. n -> ObsCatalogue] : n \in 0 .. MaxAgents }

\* the sprite size the instance was built with; its board size is the
\* width of the boards the simulator hands out here, 2
EnvSpriteSize == 1

InitCache ==
    /\ lastobs_raw = None /\ produced = NotProduced
    /\ spec_id = OtherEnv /\ _num_rigid = 2 /\ _num_wood = 6 /\ _num_items = 0
    /\ call = NoCall /\ ret = Pending

\* lines 67-70
Reset ==
    /\ \E obs \in ObsLists :
         /\ lastobs_raw' = Some(Annotate(obs))
         /\ produced' = [is_none |-> FALSE, list |-> Annotate(obs),
                          redraw_called |-> produced.redraw_called]
         /\ call' = [op |-> "reset"]
         /\ ret' = Ok(redraw(obs, EnvSpriteSize, 2))
    /\ UNCHANGED <<spec_id, _num_rigid, _num_wood, _num_items>>

\* super().reset() raises (no agents set): line 69 is not reached
ResetRaises ==
    /\ call' = [op |-> "reset"]
    /\ ret' = Raise("AssertionError")
    /\ UNCHANGED <<lastobs_raw, produced, spec_id, _num_rigid, _num_wood, _num_items>>

\* lines 72-75
Step ==
    /\ \E obs \in ObsLists, done \in BOOLEAN :
         /\ lastobs_raw' = Some(Annotate(obs))
         /\ produced' = [is_none |-> FALSE, list |-> Annotate(obs),
                          redraw_called |-> produced.redraw_called]
         /\ call' = [op |-> "step"]
         /\ ret' = Ok([views |-> redraw(obs, EnvSpriteSize, 2), done |-> done])
    /\ UNCHANGED <<spec_id, _num_rigid, _num_wood, _num_items>>

\* super().step() raises: line 74 is not reached
StepRaises ==
    /\ call' = [op |-> "step"]
    /\ ret' = Raise("Exception")
    /\ UNCHANGED <<lastobs_raw, produced, spec_id, _num_rigid, _num_wood, _num_items>>

\* lines 77-81
GetLastStepRaw ==
    /\ call' = [op |-> "get_last_step_raw"]
    /\ ret' = IF Truthy(lastobs_raw) THEN Ok(lastobs_raw.list) ELSE Raise("ResetNeeded")
    /\ UNCHANGED <<lastobs_raw, produced, spec_id, _num_rigid, _num_wood, _num_items>>

\* the lists a caller can hand to redraw: dicts of the cached list and of the
\* caller's own pool (distinct objects, of any contents), in any order and
\* number, the same object any number of times
RedrawPools == [1 .. MaxAgents -> ObsCatalogue]

RedrawElems ==
    {[kind |-> "cached", ref |-> r] : r \in 1 .. Len(lastobs_raw.list)}
        \cup {[kind |-> "own", ref |-> i] : i \in 1 .. MaxAgents}

RedrawArgs == UNION { [1 .. n -> RedrawElems] : n \in 0 .. MaxAgents }

\* lines 49-65, called directly
Redraw ==
    /\ \E pool \in RedrawPools, arg \in RedrawArgs :
         /\ lastobs_raw' = [lastobs_raw EXCEPT !.list = RewriteCached(lastobs_raw.list, arg)]
         /\ call' = [op |-> "redraw"]
         /\ ret' = Ok(RedrawViews(AnnotateArg(lastobs_raw.list, pool, arg), EnvSpriteSize, 2))
    /\ produced' = [produced EXCEPT !.redraw_called = TRUE]
    /\ UNCHANGED <<spec_id, _num_rigid, _num_wood, _num_items>>

NextCache == Reset \/ ResetRaises \/ Step \/ StepRaises \/ GetLastStepRaw \/ Redraw

SpecCache == InitCache /\ [][NextCache]_vars

\* C1: over the sequences of reset, step and get_last_step_raw calls (redraw
\* never called directly), get_last_step_raw raises ResetNeeded whenever no
\* reset or step has completed yet, and after at least one it returns exactly
\* the observation list produced by the most recent reset or step, never an
\* error.
C1_RawIsLastProduced ==
    (call.op = "get_last_step_raw" /\ ~produced.redraw_called) =>
        IF produced.is_none
        THEN ret.raised = "ResetNeeded"
        ELSE ret.raised = "none" /\ ret.value = produced.list

====
